---- MODULE Spec2Model ----
(***************************************************************************)
(* A model of src/src/main.rs: attempt( available, allowed, preferred ),   *)
(* which is find_preferred( filter_allowed( available, allowed ),          *)
(* preferred ).  One call of attempt is one behaviour: Init draws the      *)
(* arguments, and the actions are the steps of the two functions.          *)
(***************************************************************************)
EXTENDS Integers, Sequences, FiniteSets

(* ------------------------------ bounds --------------------------------- *)

\* Calls that keep the documented precondition (SpecSorted): how many of the
\* levels of Level the arguments draw from, and the longest argument.
NumLevels == 3
MaxLen == 3
\* Calls with any arguments, sorted or not (Spec): the same two bounds.
NumLevelsAll == 2
MaxLenAll == 2

(* ------------------------------ values --------------------------------- *)

\* The numbers the program's own calls use (main and the tests), ascending.
Level == <<240, 360, 720, 1080>>

Numbers(n) == {Level[i] : i \in 1..n}

\* enum Value { Number( i32 ), Any }
Number(n) == [tag |-> "Number", n |-> n]

Any == [tag |-> "Any"]

\* Mutant of IsEmpty: the check before the push is gone.
IsEmptyNever(s) == FALSE

\* available.is_empty()
IsEmpty(s) == s = <<>>

IsAny(x) == x.tag = "Any"

\* Mutants of ContainsAny: only the first element is looked at; every element
\* has to be the wildcard (all for any).
ContainsAnyFirst(values) == Len(values) > 0 /\ IsAny(values[1])

ContainsAnyAll(values) == \A i \in 1..Len(values) : IsAny(values[i])

\* allowed.iter().any( | x | *x == Value::Any )
ContainsAny(values) == \E i \in 1..Len(values) : IsAny(values[i])

\* Mutant of Cmp: the operands the other way round.
CmpReversed(a, b) == IF b < a THEN "Less" ELSE IF b > a THEN "Greater" ELSE "Equal"

\* av.cmp( &al )
Cmp(a, b) == IF a < b THEN "Less" ELSE IF a > b THEN "Greater" ELSE "Equal"

\* Mutant of NextAvailable: the Equal arm does not call available.next().
NextAvailableLessOnly(ord, i) == IF ord = "Less" THEN i + 1 ELSE i

\* The arms of the match on av.cmp( &al ): which iterator calls next().
NextAvailable(ord, i) == IF ord \in {"Less", "Equal"} THEN i + 1 ELSE i

NextAllowed(ord, j) == IF ord \in {"Greater", "Equal"} THEN j + 1 ELSE j

\* result.push( av ) in the Equal arm
PushOnEqual(ord, res, av) == IF ord = "Equal" THEN Append(res, av) ELSE res

\* The slice is partitioned by | x | *x < pref: every element for which the
\* predicate holds comes before every element for which it does not.
IsPartitioned(s, pref) ==
  \A i, j \in 1..Len(s) : (i < j /\ s[j] < pref) => s[i] < pref

\* Mutant of PartitionPoints: the predicate is | x | *x <= pref.
PartitionPointsLe(s, pref) ==
  IF \A i, j \in 1..Len(s) : (i < j /\ s[j] <= pref) => s[i] <= pref
  THEN {Cardinality({i \in 1..Len(s) : s[i] <= pref})}
  ELSE 0..Len(s)

\* available.partition_point( | x | *x < pref ): the index of the first
\* element of the second partition.  On a slice that is not partitioned the
\* result is unspecified: some index between 0 and the length.
PartitionPoints(s, pref) ==
  IF IsPartitioned(s, pref)
  THEN {Cardinality({i \in 1..Len(s) : s[i] < pref})}
  ELSE 0..Len(s)

\* Mutants of AdjustIndex: no step back from the end; a step back from
\* every index but 0.
AdjustIndexNoStepBack(s, index) == index

AdjustIndexAlways(s, index) == IF index > 0 THEN index - 1 ELSE index

\* if index > 0 && available.len() == index { index -= 1; }
AdjustIndex(s, index) == IF index > 0 /\ Len(s) = index THEN index - 1 ELSE index

\* Mutant of Dedup: nothing is removed.
DedupNone(s) == s

\* Vec::dedup: of each run of consecutive equal elements the first is kept.
RECURSIVE Dedup(_)
Dedup(s) ==
  IF Len(s) <= 1 THEN s
  ELSE IF s[1] = s[2] THEN Dedup(Tail(s))
  ELSE <<s[1]>> \o Dedup(Tail(s))

(* ------------------------------- state --------------------------------- *)

VARIABLES
  available,     \* attempt's argument
  allowed,       \* attempt's argument
  preferred,     \* attempt's argument
  pc,            \* where the call is
  av_i,          \* filter_allowed: the element `available.peek()` yields
  al_i,          \* filter_allowed: the element `allowed.peek()` yields
  fa_result,     \* filter_allowed: `result`
  fp_available,  \* find_preferred: `available`, the value filter_allowed returned
  pr_i,          \* find_preferred: the element of `preferred` the for loop is at
  result         \* find_preferred: `result`, and at "done" the value of attempt

vars == <<available, allowed, preferred, pc, av_i, al_i, fa_result,
          fp_available, pr_i, result>>

SeqsUpTo(S, n) == UNION {[1..k -> S] : k \in 0..n}

\* The precondition of the three functions: "Accepts **sorted** slices".
IsSorted(s) == \A i, j \in 1..Len(s) : i < j => s[i] <= s[j]

SortedSeqs == {s \in SeqsUpTo(Numbers(NumLevels), MaxLen) : IsSorted(s)}

AsValues(s) == [i \in 1..Len(s) |-> Number(s[i])]

\* The state as attempt is entered with the given arguments.
Entered(avs, als, prs) ==
  /\ available \in avs
  /\ allowed \in als
  /\ preferred \in prs
  /\ pc = "filter_allowed"
  /\ av_i = 1
  /\ al_i = 1
  /\ fa_result = <<>>
  /\ fp_available = <<>>
  /\ pr_i = 1
  /\ result = <<>>

\* Any call: numbers in any order, the wildcard at any place.
Init ==
  LET values == {Number(n) : n \in Numbers(NumLevelsAll)} \cup {Any}
  IN Entered(SeqsUpTo(Numbers(NumLevelsAll), MaxLenAll),
             SeqsUpTo(values, MaxLenAll),
             SeqsUpTo(values, MaxLenAll))

\* A call that keeps the precondition: ascending numbers; `allowed` may
\* instead be the wildcard, which hands every ascending `available` on to
\* find_preferred.
InitSorted ==
  Entered(SortedSeqs,
          {AsValues(s) : s \in SortedSeqs} \cup {<<Any>>},
          {AsValues(s) : s \in SortedSeqs})

(* ---------------------------- filter_allowed --------------------------- *)

\* The wildcard check: with Any in `allowed`, `available` is returned as it is.
FilterAllowed ==
  /\ pc = "filter_allowed"
  /\ IF ContainsAny(allowed)
     THEN /\ fp_available' = available
          /\ pc' = "find_preferred"
     ELSE /\ fp_available' = fp_available
          /\ pc' = "filter_loop"
  /\ UNCHANGED <<available, allowed, preferred, av_i, al_i, fa_result, pr_i, result>>

\* One turn of the loop.  Both peeks are evaluated before the match, and the
\* peek of `allowed` applies assume_number to the element it yields.
FilterLoop ==
  /\ pc = "filter_loop"
  /\ IF al_i <= Len(allowed) /\ IsAny(allowed[al_i])
     THEN /\ pc' = "panic"
          /\ UNCHANGED <<av_i, al_i, fa_result, fp_available>>
     ELSE IF av_i <= Len(available) /\ al_i <= Len(allowed)
     THEN LET av == available[av_i]
              al == allowed[al_i].n
              ord == Cmp(av, al)
          IN /\ fa_result' = PushOnEqual(ord, fa_result, av)
             /\ av_i' = NextAvailable(ord, av_i)
             /\ al_i' = NextAllowed(ord, al_i)
             /\ UNCHANGED <<pc, fp_available>>
     ELSE /\ pc' = "find_preferred"
          /\ fp_available' = fa_result
          /\ UNCHANGED <<av_i, al_i, fa_result>>
  /\ UNCHANGED <<available, allowed, preferred, pr_i, result>>

(* ---------------------------- find_preferred --------------------------- *)

\* The wildcard check: with Any in `preferred`, `available` is returned in full.
FindPreferred ==
  /\ pc = "find_preferred"
  /\ IF ContainsAny(preferred)
     THEN /\ result' = fp_available
          /\ pc' = "done"
     ELSE /\ result' = <<>>
          /\ pc' = "for_pref"
  /\ UNCHANGED <<available, allowed, preferred, av_i, al_i, fa_result,
                 fp_available, pr_i>>

\* One turn of the for loop: assume_number on the element, the partition
\* point, the step back from the end, and the push.
ForPref ==
  /\ pc = "for_pref"
  /\ pr_i <= Len(preferred)
  /\ IF IsAny(preferred[pr_i])
     THEN /\ pc' = "panic"
          /\ UNCHANGED <<pr_i, result>>
     ELSE \E point \in PartitionPoints(fp_available, preferred[pr_i].n) :
            LET index == AdjustIndex(fp_available, point)
            IN IF IsEmpty(fp_available)
               THEN /\ pr_i' = pr_i + 1
                    /\ UNCHANGED <<pc, result>>
               ELSE IF index < Len(fp_available)
               THEN /\ result' = Append(result, fp_available[index + 1])
                    /\ pr_i' = pr_i + 1
                    /\ pc' = pc
               ELSE /\ pc' = "panic"
                    /\ UNCHANGED <<pr_i, result>>
  /\ UNCHANGED <<available, allowed, preferred, av_i, al_i, fa_result, fp_available>>

\* After the loop: result.dedup(), and the return.
FindPreferredReturn ==
  /\ pc = "for_pref"
  /\ pr_i > Len(preferred)
  /\ result' = Dedup(result)
  /\ pc' = "done"
  /\ UNCHANGED <<available, allowed, preferred, av_i, al_i, fa_result,
                 fp_available, pr_i>>

Next == FilterAllowed \/ FilterLoop \/ FindPreferred \/ ForPref \/ FindPreferredReturn

Spec == Init /\ [][Next]_vars

SpecSorted == InitSorted /\ [][Next]_vars

(* ------------------------ what the claims speak of --------------------- *)

Range(s) == {s[i] : i \in 1..Len(s)}

Min(S) == CHOOSE x \in S : \A y \in S : x <= y

Max(S) == CHOOSE x \in S : \A y \in S : x >= y

\* The sequence holds the wildcard at some place.
HasWildcard(values) == Any \in Range(values)

\* The sequence holds Numbers only, in ascending order.
AscendingNumbers(values) ==
  ~HasWildcard(values) /\ IsSorted([i \in 1..Len(values) |-> values[i].n])

Abs(x) == IF x < 0 THEN -x ELSE x

\* filter_allowed has returned; fp_available holds the value it returned.
FilterReturned == pc \in {"find_preferred", "for_pref", "done"}

\* r is s with elements deleted and none reordered.
IsSubsequence(r, s) ==
  \E f \in [1..Len(r) -> 1..Len(s)] :
    /\ \A i, j \in 1..Len(r) : i < j => f[i] < f[j]
    /\ \A i \in 1..Len(r) : r[i] = s[f[i]]

IsStrictlyIncreasing(s) == \A i, j \in 1..Len(s) : i < j => s[i] < s[j]

\* The value the selection policy names for p: the smallest element that is
\* >= p, or the largest element when there is none.  s is not empty.
Selected(s, p) ==
  LET atLeast == {x \in Range(s) : x >= p}
  IN IF atLeast # {} THEN Min(atLeast) ELSE Max(Range(s))

\* One selection for each preferred number, in the order of `preferred`.
Selections(s, prefs) ==
  IF s = <<>> THEN <<>> ELSE [i \in 1..Len(prefs) |-> Selected(s, prefs[i].n)]

\* s with each run of adjacent equal values collapsed to one.
RECURSIVE CollapsedUpTo(_, _)
CollapsedUpTo(s, k) ==
  IF k = 0 THEN <<>>
  ELSE IF k > 1 /\ s[k] = s[k - 1] THEN CollapsedUpTo(s, k - 1)
  ELSE Append(CollapsedUpTo(s, k - 1), s[k])

Collapsed(s) == CollapsedUpTo(s, Len(s))

\* The available values that are allowed, read off attempt's arguments.
AllowedAvailable ==
  {v \in Range(available) : HasWildcard(allowed) \/ Number(v) \in Range(allowed)}

\* In the for loop, after at least one turn: the preferred number of the last
\* turn and, `available` not being empty, the value that turn pushed.
TurnDone == pc = "for_pref" /\ pr_i > 1 /\ fp_available # <<>>

LastPref == preferred[pr_i - 1].n

LastPushed == result[Len(result)]

(* -------------------------------- claims ------------------------------- *)

\* C1: for ascending `available` and ascending `preferred` without the
\* wildcard, find_preferred returns the selections (for each p the smallest
\* available value >= p, else the largest available value), in the order of
\* `preferred`, with runs of adjacent equal values collapsed to one.
C1_SelectionsCollapsed ==
  (pc = "done" /\ AscendingNumbers(preferred) /\ IsSorted(fp_available))
    => result = Collapsed(Selections(fp_available, preferred))

\* A call where the first selection is the smallest value >= p, the second
\* falls back to the largest value, and the two collapse to one.
C1_Witness ==
  /\ pc = "done"
  /\ fp_available = <<240, 360>>
  /\ preferred = <<Number(360), Number(720)>>
  /\ result = <<360>>

C3_AllowedWildcard ==
  (HasWildcard(allowed) /\ pc # "filter_allowed")
    => (pc # "filter_loop" /\ fp_available = available)

\* The wildcard is the last entry, after a Number, and `available` descends.
C3_Witness ==
  /\ FilterReturned
  /\ allowed = <<Number(240), Any>>
  /\ available = <<360, 240>>
  /\ fp_available = <<360, 240>>

\* C4: with the wildcard anywhere in `preferred`, find_preferred returns its
\* `available` in full, so attempt returns what filter_allowed returned,
\* whatever the Numbers of `preferred` are.
C4_PreferredWildcard ==
  (HasWildcard(preferred) /\ pc \notin {"filter_allowed", "filter_loop", "find_preferred"})
    => (pc = "done" /\ result = fp_available)

\* The wildcard follows a Number that would have selected 360 only.
C4_Witness ==
  /\ pc = "done"
  /\ preferred = <<Number(360), Any>>
  /\ allowed = <<Number(240), Number(360)>>
  /\ available = <<240, 360>>
  /\ result = <<240, 360>>

\* C5: attempt returns the empty sequence whenever `available` is empty, and
\* whenever filter_allowed returned the empty sequence, for every `preferred`.
C5_EmptyStaysEmpty ==
  /\ (pc \in {"done", "panic"} /\ (available = <<>> \/ fp_available = <<>>))
       => (pc = "done" /\ result = <<>>)
  /\ (FilterReturned /\ available = <<>>) => fp_available = <<>>

\* Nothing of a non-empty `available` is allowed, and `preferred` holds the
\* wildcard and a Number.
C5_Witness ==
  /\ pc = "done"
  /\ available = <<240>>
  /\ allowed = <<Number(360)>>
  /\ preferred = <<Any, Number(240)>>
  /\ result = <<>>

\* C6: no call aborts and every call goes on until it returns: a loop that applies assume_number runs only on a
\* sequence without the wildcard, and every index the for loop can use on a
\* non-empty `available` is within bounds.
C6_NoAbort ==
  /\ pc # "panic"
  /\ pc # "done" => ENABLED Next
  /\ pc = "filter_loop" => ~HasWildcard(allowed)
  /\ pc = "for_pref" => ~HasWildcard(preferred)
  /\ (pc = "for_pref" /\ pr_i <= Len(preferred) /\ fp_available # <<>>)
       => \A point \in PartitionPoints(fp_available, preferred[pr_i].n) :
            AdjustIndex(fp_available, point) \in 0..(Len(fp_available) - 1)

\* A call that returned although `available` is not partitioned by the
\* preferred number, so that the partition point was unspecified.
C6_Witness ==
  /\ pc = "done"
  /\ fp_available = <<360, 240>>
  /\ preferred = <<Number(360)>>
  /\ result = <<240>>

\* C7: for all arguments, what filter_allowed returns, and what its loop has
\* collected so far, is a subsequence of `available`.
C7_Subsequence ==
  /\ IsSubsequence(fa_result, available)
  /\ FilterReturned => IsSubsequence(fp_available, available)

\* The loop ran on arguments that are not sorted and dropped an element.
C7_Witness ==
  /\ FilterReturned
  /\ available = <<360, 240>>
  /\ allowed = <<Number(240), Number(360)>>
  /\ fp_available = <<360>>

C9_DocExample ==
  (FilterReturned /\ available = <<240, 360, 720>>
     /\ allowed = <<Number(360), Number(720)>>)
    => fp_available = <<720>>

\* C10: for ascending `available`, duplicates included, and ascending
\* `preferred` without the wildcard, what find_preferred returns is strictly
\* increasing: no value occurs twice in it.
C10_StrictlyIncreasing ==
  (pc = "done" /\ AscendingNumbers(preferred) /\ IsSorted(fp_available))
    => IsStrictlyIncreasing(result)

\* `available` holds a value twice and three preferred numbers select two
\* values.
C10_Witness ==
  /\ pc = "done"
  /\ fp_available = <<240, 240, 360>>
  /\ preferred = <<Number(240), Number(360), Number(720)>>
  /\ result = <<240, 360>>

====
